---- MODULE Spec2Model ----
(***************************************************************************)
(* A model of the InferenceMAX benchmark pipeline:                         *)
(*   - the client script embedded by generate_html.py (lazy loading of     *)
(*     deferred datasets, rendering, the select handlers),                 *)
(*   - build_client_payload and coerce_record_types of generate_html.py,   *)
(*   - schema inference and the schema pool of                             *)
(*     scripts/compact_schema_all_examples.py,                             *)
(*   - the functions normalize_records_from_json, buildTraces, add_example *)
(*     and the model name canonicalization of both the batch and the       *)
(*     client path, each applied to inputs drawn from bounded sets.        *)
(* Each part has its own specification over the shared variables; the      *)
(* variables of the other parts keep their idle values.                    *)
(***************************************************************************)
EXTENDS Integers, Sequences, FiniteSets, TLC

VARIABLES
    \* ---- client script (generate_html.py, main_js) ----
    CLIENT_MAP,     \* map key -> entry {records, record_count, filename, sample}
    modelOptions,   \* option values of #model_sel, in display order
    modelSel,       \* modelSel.value
    ctxOptions,     \* option values of #ctx_sel, in insertion order
    ctxSel,         \* ctxSel.value
    ySel,           \* TRUE when ySel.value names a column, FALSE when it is ''
    requests,       \* every fetch() issued so far: [key, status]
    lastCall,       \* the latest loadRecordsIfNeeded call: [key, hit]
    lastRender,     \* key and recs of the latest run of renderForKey's callback
    plot_div,       \* what #plot_div shows
    countTotal,     \* countTotal.textContent
    \* ---- coerce_record_types (generate_html.py) ----
    crHist,         \* a record, then the result of each pass over it
    \* ---- compact_schema_all_examples.py ----
    dirList,        \* the .json files of input_dir not yet processed, sorted
    items,          \* number of items of the current file analyzed so far
    store,          \* compact_schema_from_items' store for the current file
    out_files,      \* output_dir: file name -> schema written by process_file
    schema_pool,    \* id -> schema
    sig_to_id,      \* signature -> id
    files_list,     \* [filename, schema_id] of each file assigned an id
    \* ---- build_client_payload (generate_html.py) ----
    files,          \* list_data_files(): the data files, [name, json], sorted
    nDone,          \* how many of them build_client_payload has processed
    client_map,     \* the payload built so far
    \* ---- normalize_records_from_json (generate_html.py) ----
    nrX,            \* an array of objects
    nrMap,          \* a mapping
    nrOut,          \* the records extracted from them so far
    \* ---- buildTraces (generate_html.py, main_js) ----
    btRecs,         \* the records argument
    btArgs,         \* [tpFilter, precFilter]
    btTraces,       \* the traces returned, once it has run
    \* ---- model name canonicalization (generate_html.py) ----
    cnRaw,          \* a raw model string, as a sequence of characters
    cnOut           \* what each path made of it so far

uiVars == <<CLIENT_MAP, modelOptions, modelSel, ctxOptions, ctxSel, ySel,
            requests, lastCall, lastRender, plot_div, countTotal>>

coerceVars == <<crHist>>
schemaVars == <<dirList, items, store, out_files, schema_pool, sig_to_id, files_list>>
payloadVars == <<files, nDone, client_map>>
normalizeVars == <<nrX, nrMap, nrOut>>
\* the variables of the specifications of single functions
tracesVars == <<btRecs, btArgs, btTraces>>
canonVars == <<cnRaw, cnOut>>
pureVars == <<normalizeVars, tracesVars, canonVars>>

vars == <<uiVars, coerceVars, schemaVars, payloadVars, pureVars>>

Range(s) == {s[i] : i \in DOMAIN s}

(***************************************************************************)
(* Bounds.                                                                 *)
(***************************************************************************)
\* fetch() calls issued in one behaviour
MaxFetches == 3
\* passes of coerce_record_types over one record
MaxPasses == 2
\* items of one input file of compact_schema_all_examples.py
MaxItems == 3

(***************************************************************************)
(* generate_html.py: constants.                                            *)
(***************************************************************************)
EMBED_RECORDS_LIMIT == 5000

(***************************************************************************)
(* The client script.                                                      *)
(*                                                                         *)
(* JavaScript is single threaded: a handler runs to completion, and the    *)
(* callback of an already resolved promise runs as a microtask before any  *)
(* other event.  So one action is a handler together with the callbacks of *)
(* the promises that are resolved when it returns; the callback chain of a *)
(* fetch() runs in the action of that fetch's completion.                  *)
(***************************************************************************)

\* meta.records: null, or an array of records
NoRecords == [null |-> TRUE, list |-> <<>>]
Records(l) == [null |-> FALSE, list |-> l]

\* The keys of CLIENT_MAP in Object.keys order (the order build_client_payload
\* inserted them in: the sorted file names).
KeyOrder == <<"results_70b_1k1k", "results_70b_8k1k", "results_dsr1_1k1k">>
Keys == Range(KeyOrder)

Filename(k) ==
    CASE k = "results_70b_1k1k" -> "results_70b_1k1k.json"
      [] k = "results_70b_8k1k" -> "results_70b_8k1k.json"
      [] k = "results_dsr1_1k1k" -> "results_dsr1_1k1k.json"

\* FILE_MAP[k][0] canonicalized: _CANONICAL_MAP's targets
FileMapCanon(k) ==
    CASE k = "results_70b_1k1k" -> "Llama-3.3-70B-Instruct"
      [] k = "results_70b_8k1k" -> "Llama-3.3-70B-Instruct"
      [] k = "results_dsr1_1k1k" -> "DeepSeek-R1-0528"

Canon == {"Llama-3.3-70B-Instruct", "DeepSeek-R1-0528"}

\* A record as the client script reads it: the dataset it was read from (ds)
\* and its place there (i), r._model_canonical (mc, "" when falsy), and
\* whether it has a numeric column (num).
UIRecord(k, i, mc, num) == [ds |-> k, i |-> i, mc |-> mc, num |-> num]

\* The entries build_client_payload produces for a file matching key k.
\* sample.mc is sample._model_canonical, "" when the sample is {}.
EagerEntry(k, recs) ==
    [records |-> Records(recs), record_count |-> Len(recs),
     filename |-> Filename(k),
     sample |-> IF recs # <<>> THEN [mc |-> recs[1].mc] ELSE [mc |-> ""]]

DeferredEntry(k, n) ==
    [records |-> NoRecords, record_count |-> n, filename |-> Filename(k),
     sample |-> [mc |-> FileMapCanon(k)]]

EntryChoices(k) ==
    {EagerEntry(k, <<>>)}
    \cup {EagerEntry(k, <<UIRecord(k, 1, mc, TRUE)>>) : mc \in Canon}
    \cup {DeferredEntry(k, EMBED_RECORDS_LIMIT + 1)}

\* canonicalizeModelFromString(meta.filename.replace(/[-_.]+/g,' ')): the
\* separators become '-', no rule matches a file name of FILE_MAP.
FallbackCanon(k) ==
    CASE k = "results_70b_1k1k" -> "results-70b-1k1k-json"
      [] k = "results_70b_8k1k" -> "results-70b-8k1k-json"
      [] k = "results_dsr1_1k1k" -> "results-dsr1-1k1k-json"

\* String(a.display).localeCompare(String(b.display)) on the displays above
DisplayRank(c) ==
    CASE c = "DeepSeek-R1-0528" -> 1
      [] c = "Llama-3.3-70B-Instruct" -> 2
      [] c = "results-70b-1k1k-json" -> 3
      [] c = "results-70b-8k1k-json" -> 4
      [] c = "results-dsr1-1k1k-json" -> 5
      [] OTHER -> 6

\* buildModels: the canonical ids of one entry
EntryModels(cm, k) ==
    LET meta == cm[k] IN
    IF ~meta.records.null /\ meta.records.list # <<>>
    THEN {IF r.mc # "" THEN r.mc ELSE "unknown" : r \in Range(meta.records.list)}
    ELSE IF meta.sample.mc # "" THEN {meta.sample.mc}
    ELSE {FallbackCanon(k)}

buildModels(cm) == UNION {EntryModels(cm, k) : k \in Keys}

RECURSIVE SortByRank(_)
SortByRank(S) ==
    IF S = {} THEN <<>>
    ELSE LET m == CHOOSE x \in S : \A y \in S : DisplayRank(x) <= DisplayRank(y)
         IN <<m>> \o SortByRank(S \ {m})

populateModelSelect(cm) == SortByRank(buildModels(cm))

\* populateContextSelect: the keys offered for a model
ContextFound(cm, k, modelName) ==
    LET meta == cm[k] IN
    IF ~meta.records.null /\ meta.records.list # <<>>
    THEN \E r \in Range(meta.records.list) : r.mc = modelName
    ELSE IF meta.sample.mc # "" THEN meta.sample.mc = modelName
    \* the file name does not include the model name without its dashes
    ELSE FALSE

populateContextSelect(cm, modelName) ==
    LET opts == SelectSeq(KeyOrder, LAMBDA k : ContextFound(cm, k, modelName))
    IN IF opts # <<>> THEN opts ELSE KeyOrder

\* populateYOptionsForKey, then ySel.value = ySel.options[0].value: a column
\* when the first record has a numeric one, '' ('(no numeric)') otherwise; a
\* sample built from FILE_MAP or a file name has no numeric value.
populateYOptionsForKey(cm, key) ==
    LET meta == cm[key] IN
    /\ ~meta.records.null
    /\ meta.records.list # <<>>
    /\ meta.records.list[1].num

\* A loadRecordsIfNeeded that skips the test of meta.records
NeedsFetch_Always(meta) == TRUE

\* loadRecordsIfNeeded: whether the call goes to the network
NeedsFetch(meta) == meta.records.null

\* The callback renderForKey gives to the promise.  records is what the
\* promise resolved to (NoRecords for null).
ThenCallback(cm, key, records, y) ==
    LET meta == cm[key]
        recs == IF ~meta.records.null THEN meta.records.list
                ELSE IF ~records.null THEN records.list ELSE <<>>
    IN [lastRender |-> [key |-> key, recs |-> recs],
        countTotal |-> IF meta.record_count # 0 THEN meta.record_count ELSE Len(recs),
        plot_div |-> IF y THEN [kind |-> "plot", key |-> key, recs |-> recs]
                          ELSE [kind |-> "missing", key |-> key, recs |-> <<>>]]

\* renderForKey(key) up to the end of the handler's microtasks; ui holds
\* lastRender, countTotal and plot_div as they are before the call.
renderForKey(cm, reqs, ui, key, y) ==
    IF NeedsFetch(cm[key])
    THEN [requests |-> Append(reqs, [key |-> key, status |-> "pending"]),
          lastCall |-> [key |-> key, hit |-> FALSE],
          lastRender |-> ui.lastRender, countTotal |-> ui.countTotal,
          plot_div |-> ui.plot_div]
    ELSE LET cb == ThenCallback(cm, key, cm[key].records, y)
         IN [requests |-> reqs,
             lastCall |-> [key |-> key, hit |-> TRUE],
             lastRender |-> cb.lastRender, countTotal |-> cb.countTotal,
             plot_div |-> cb.plot_div]

\* A catch() that stores the (empty) result of the failed fetch
Settled_StoreOnFail(meta, ok, body) == [meta EXCEPT !.records = Records(body)]

\* meta after the promise chain of its fetch has settled: the second then()
\* stores the records, the catch() touches nothing.
Settled(meta, ok, body) ==
    IF ok THEN [meta EXCEPT !.records = Records(body)] ELSE meta

\* What a fetch of data/<filename> of entry k can yield after the client's
\* normalization: an array of records whose _model_canonical the client
\* computed ('' for a record without a model).
FetchBodies(k) ==
    {<<>>}
    \cup {<<UIRecord(k, 1, "", TRUE)>>}
    \cup {<<UIRecord(k, 1, FileMapCanon(k), TRUE), UIRecord(k, 2, FileMapCanon(k), TRUE)>>}

\* The variables of each part while another part runs
IdleCoerce == crHist = <<>>
IdleSchema ==
    /\ dirList = <<>> /\ items = 0 /\ store = <<>> /\ out_files = <<>>
    /\ schema_pool = <<>> /\ sig_to_id = <<>> /\ files_list = <<>>
IdlePayload == files = <<>> /\ nDone = 0 /\ client_map = <<>>
IdleNormalize == nrX = <<>> /\ nrMap = <<>> /\ nrOut = <<>>
IdleTraces == btRecs = <<>> /\ btArgs = <<>> /\ btTraces = <<>>
IdleCanon == cnRaw = <<>> /\ cnOut = <<>>
IdlePure == IdleNormalize /\ IdleTraces /\ IdleCanon

IdleUI ==
    /\ CLIENT_MAP = <<>> /\ modelOptions = <<>> /\ modelSel = "" /\ ctxOptions = <<>>
    /\ ctxSel = "" /\ ySel = FALSE /\ requests = <<>>
    /\ lastCall = [key |-> "", hit |-> FALSE]
    /\ lastRender = [key |-> "", recs |-> <<>>] /\ countTotal = 0
    /\ plot_div = [kind |-> "empty", key |-> "", recs |-> <<>>]

UIBlank ==
    [lastRender |-> [key |-> "", recs |-> <<>>], countTotal |-> 0,
     plot_div |-> [kind |-> "empty", key |-> "", recs |-> <<>>]]

\* The page after its script has run: the selects are populated, the first
\* model and its first context are selected and rendered.
InitUI ==
    /\ IdleCoerce /\ IdleSchema /\ IdlePayload /\ IdlePure
    /\ CLIENT_MAP \in [Keys -> UNION {EntryChoices(k) : k \in Keys}]
    /\ \A k \in Keys : CLIENT_MAP[k] \in EntryChoices(k)
    /\ modelOptions = populateModelSelect(CLIENT_MAP)
    /\ modelSel = modelOptions[1]
    /\ ctxOptions = populateContextSelect(CLIENT_MAP, modelSel)
    /\ ctxSel = ctxOptions[1]
    /\ ySel = populateYOptionsForKey(CLIENT_MAP, ctxSel)
    /\ LET r == renderForKey(CLIENT_MAP, <<>>, UIBlank, ctxSel, ySel)
       IN /\ requests = r.requests
          /\ lastCall = r.lastCall
          /\ lastRender = r.lastRender
          /\ countTotal = r.countTotal
          /\ plot_div = r.plot_div

UINow == [lastRender |-> lastRender, countTotal |-> countTotal, plot_div |-> plot_div]

\* A call of renderForKey(key) is within the bound on fetches
CanRender(key) == ~NeedsFetch(CLIENT_MAP[key]) \/ Len(requests) < MaxFetches

Render(key, y) ==
    LET r == renderForKey(CLIENT_MAP, requests, UINow, key, y)
    IN /\ requests' = r.requests
       /\ lastCall' = r.lastCall
       /\ lastRender' = r.lastRender
       /\ countTotal' = r.countTotal
       /\ plot_div' = r.plot_div

\* modelSel 'change'
ModelChange(m) ==
    /\ m \in Range(modelOptions)
    /\ m # modelSel
    /\ LET opts == populateContextSelect(CLIENT_MAP, m)
           y == populateYOptionsForKey(CLIENT_MAP, opts[1])
       IN /\ CanRender(opts[1])
          /\ modelSel' = m
          /\ ctxOptions' = opts
          /\ ctxSel' = opts[1]
          /\ ySel' = y
          /\ Render(opts[1], y)
    /\ UNCHANGED <<CLIENT_MAP, modelOptions>>
    /\ UNCHANGED <<coerceVars, schemaVars, payloadVars, pureVars>>

\* ctxSel 'change'
CtxChange(k) ==
    /\ k \in Range(ctxOptions)
    /\ k # ctxSel
    /\ CanRender(k)
    /\ ctxSel' = k
    /\ ySel' = populateYOptionsForKey(CLIENT_MAP, k)
    /\ Render(k, populateYOptionsForKey(CLIENT_MAP, k))
    /\ UNCHANGED <<CLIENT_MAP, modelOptions, modelSel, ctxOptions>>
    /\ UNCHANGED <<coerceVars, schemaVars, payloadVars, pureVars>>

\* 'change' of ySel, xSel, precSel, tpSel, tpLine or yscaleSel: each calls
\* renderForKey(ctxSel.value); a changed ySel still names a column.
ControlChange ==
    /\ CanRender(ctxSel)
    /\ Render(ctxSel, ySel)
    /\ UNCHANGED <<CLIENT_MAP, modelOptions, modelSel, ctxOptions, ctxSel, ySel>>
    /\ UNCHANGED <<coerceVars, schemaVars, payloadVars, pureVars>>

\* The end of a fetch: its promise chain, then renderForKey's callback.
FetchEnd(i, ok, body) ==
    /\ i \in DOMAIN requests
    /\ requests[i].status = "pending"
    /\ LET key == requests[i].key
           cm == [CLIENT_MAP EXCEPT ![key] = Settled(CLIENT_MAP[key], ok, body)]
           cb == ThenCallback(cm, key, IF ok THEN Records(body) ELSE NoRecords, ySel)
       IN /\ CLIENT_MAP' = cm
          /\ requests' = [requests EXCEPT ![i].status = IF ok THEN "ok" ELSE "failed"]
          /\ lastRender' = cb.lastRender
          /\ countTotal' = cb.countTotal
          /\ plot_div' = cb.plot_div
    /\ UNCHANGED <<modelOptions, modelSel, ctxOptions, ctxSel, ySel, lastCall>>
    /\ UNCHANGED <<coerceVars, schemaVars, payloadVars, pureVars>>

\* resp.ok and a body the second then() accepts
FetchOk(i) ==
    /\ i \in DOMAIN requests
    /\ \E body \in FetchBodies(requests[i].key) : FetchEnd(i, TRUE, body)

\* a network error, a response that is not ok, or a body that makes a then() throw
FetchFail(i) == FetchEnd(i, FALSE, <<>>)

NextUI ==
    \/ \E m \in Canon \cup {FallbackCanon(k) : k \in Keys} : ModelChange(m)
    \/ \E k \in Keys : CtxChange(k)
    \/ ControlChange
    \/ \E i \in 1..MaxFetches : FetchOk(i)
    \/ \E i \in 1..MaxFetches : FetchFail(i)

SpecUI == InitUI /\ [][NextUI]_vars

(***************************************************************************)
(* Properties of the client script (checked under SpecUI).                 *)
(***************************************************************************)
Pending(k) == {i \in DOMAIN requests : requests[i].key = k /\ requests[i].status = "pending"}
FetchCount(reqs, k) == Cardinality({i \in DOMAIN reqs : reqs[i].key = k})
Materialized(k) == ~CLIENT_MAP[k].records.null
\* a step of a handler: no fetch ends in it
HandlerStep == \A i \in DOMAIN requests : requests'[i].status = requests[i].status

\* C1: (single flight) a dataset never has two fetches outstanding: a resolve
\* invoked while the dataset's fetch has not completed issues no second fetch.
C1_SingleFlight == \A k \in Keys : Cardinality(Pending(k)) <= 1

\* C2: (memoized resolution) once an entry holds records it never returns to
\* deferred, no step issues a further fetch for it, and every resolve called
\* on it (a handler step selecting it) is answered from the stored records.
C2_Memoized ==
    [][\A k \in Keys : Materialized(k) =>
          /\ ~CLIENT_MAP'[k].records.null
          /\ FetchCount(requests', k) = FetchCount(requests, k)
          /\ (HandlerStep /\ ctxSel' = k) =>
                /\ lastCall' = [key |-> k, hit |-> TRUE]
                /\ lastRender' = [key |-> k, recs |-> CLIENT_MAP[k].records.list]
                /\ CLIENT_MAP' = CLIENT_MAP]_vars

\* C2 witness: an entry built deferred was materialized by a fetch, and a later
\* resolve was answered from the stored records
C2_Witness ==
    \E k \in Keys :
        /\ \E i \in DOMAIN requests : requests[i].key = k /\ requests[i].status = "ok"
        /\ Materialized(k) /\ CLIENT_MAP[k].records.list # <<>>
        /\ lastCall = [key |-> k, hit |-> TRUE]
        /\ lastRender = [key |-> k, recs |-> CLIENT_MAP[k].records.list]

C4_StaleDiscarded ==
    (\A k \in Keys : Pending(k) = {}) =>
        (plot_div.kind = "plot" => plot_div.key = ctxSel)

(***************************************************************************)
(* Python values.  A value is [py, n, s]: its class, its number (an int's  *)
(* or a bool's value, a float's value in tenths, a list's length) and its  *)
(* text (a str's).  A dict is a function from its keys to values.          *)
(***************************************************************************)
PyNone == [py |-> "NoneType", n |-> 0, s |-> ""]
PyBool(b) == [py |-> "bool", n |-> IF b THEN 1 ELSE 0, s |-> ""]
PyInt(i) == [py |-> "int", n |-> i, s |-> ""]
PyFloat(tenths) == [py |-> "float", n |-> tenths, s |-> ""]
PyStr(x) == [py |-> "str", n |-> 0, s |-> x]
PyList(len) == [py |-> "list", n |-> len, s |-> ""]
\* a key the dict does not have (used to enumerate dicts only)
Absent == [py |-> "absent", n |-> 0, s |-> ""]

IsNumber(v) == v.py \in {"int", "float", "bool"}
\* the value of a number, in tenths
Tenths(v) == IF v.py = "float" THEN v.n ELSE 10 * v.n

\* Python's ==: numbers compare by value whatever their class
PyEq(a, b) == IF IsNumber(a) /\ IsNumber(b) THEN Tenths(a) = Tenths(b) ELSE a = b
PyEqDict(a, b) == DOMAIN a = DOMAIN b /\ \A k \in DOMAIN a : PyEq(a[k], b[k])

\* The set of keys of function c that are present
MkDict(c) == [k \in {x \in DOMAIN c : c[x] # Absent} |-> c[k]]
\* d[k] = v
DictSet(d, k, v) == [x \in DOMAIN d \cup {k} |-> IF x = k THEN v ELSE d[x]]

\* The strings of the model and what Python's str methods and number
\* parsers make of them.
Strings == {"", "H100", "h100", "FP8", "fp8", "8", "1.5", "abc", "True", "true"}

\* s.lower()
Lower(x) ==
    CASE x = "H100" -> "h100"
      [] x = "FP8" -> "fp8"
      [] x = "True" -> "true"
      [] OTHER -> x

\* str(v)
StrOf(v) ==
    CASE v.py = "str" -> v.s
      [] v.py = "int" /\ v.n = 8 -> "8"
      [] v.py = "float" /\ v.n = 15 -> "1.5"
      [] v.py = "bool" /\ v.n = 1 -> "True"

\* int(s) of a str: a decimal integer literal, or ValueError
IntOfStr(x) ==
    CASE x = "8" -> [ok |-> TRUE, v |-> PyInt(8)]
      [] OTHER -> [ok |-> FALSE, v |-> PyNone]

\* float(s) of a str
FloatOfStr(x) ==
    CASE x = "8" -> [ok |-> TRUE, v |-> PyFloat(80)]
      [] x = "1.5" -> [ok |-> TRUE, v |-> PyFloat(15)]
      [] OTHER -> [ok |-> FALSE, v |-> PyNone]

\* "." in v or "e" in v.lower()
HasDotOrE(x) == x \in {"1.5", "True", "true"}

\* int(v): truncates a float toward zero, parses a str, raises on the rest
IntOf(v) ==
    CASE v.py \in {"int", "bool"} -> [ok |-> TRUE, v |-> PyInt(v.n)]
      [] v.py = "float" ->
            [ok |-> TRUE, v |-> PyInt(IF v.n >= 0 THEN v.n \div 10 ELSE -((-v.n) \div 10))]
      [] v.py = "str" -> IntOfStr(v.s)
      [] OTHER -> [ok |-> FALSE, v |-> PyNone]

\* float(v)
FloatOf(v) ==
    CASE IsNumber(v) -> [ok |-> TRUE, v |-> PyFloat(Tenths(v))]
      [] v.py = "str" -> FloatOfStr(v.s)
      [] OTHER -> [ok |-> FALSE, v |-> PyNone]

\* v in (None, "")
NoneOrEmpty(v) == v = PyNone \/ v = PyStr("")

(***************************************************************************)
(* generate_html.py: coerce_record_types.                                  *)
(***************************************************************************)
\* "hw" from "hardware", lower-cased
CoerceHw(r) ==
    LET r1 == IF "hw" \notin DOMAIN r /\ "hardware" \in DOMAIN r
              THEN DictSet(r, "hw", r["hardware"]) ELSE r
    IN IF "hw" \in DOMAIN r1 /\ r1["hw"] # PyNone
       THEN DictSet(r1, "hw", PyStr(Lower(StrOf(r1["hw"])))) ELSE r1

\* the default precision, or the given one lower-cased
CoercePrecision(r) ==
    IF "precision" \notin DOMAIN r \/ NoneOrEmpty(r["precision"])
    THEN DictSet(r, "precision", PyStr("fp8"))
    ELSE DictSet(r, "precision", PyStr(Lower(StrOf(r["precision"]))))

\* r[k] = int(r[k]), else float(r[k]), else unchanged
CoerceIntLike(r, k) ==
    IF k \in DOMAIN r /\ ~NoneOrEmpty(r[k])
    THEN IF IntOf(r[k]).ok THEN DictSet(r, k, IntOf(r[k]).v)
         ELSE IF FloatOf(r[k]).ok THEN DictSet(r, k, FloatOf(r[k]).v)
         ELSE r
    ELSE r

\* the numeric strings of the other fields become numbers
CoerceMetric(v) ==
    IF v.py = "str"
    THEN IF HasDotOrE(v.s)
         THEN (IF FloatOfStr(v.s).ok THEN FloatOfStr(v.s).v ELSE v)
         ELSE (IF IntOfStr(v.s).ok THEN IntOfStr(v.s).v ELSE v)
    ELSE v

CoerceMetrics(r) ==
    [k \in DOMAIN r |->
        IF k \in {"tp", "conc", "hw", "model", "precision", "framework"}
        THEN r[k] ELSE CoerceMetric(r[k])]

coerce_record_types(r) ==
    CoerceMetrics(CoerceIntLike(CoerceIntLike(CoercePrecision(CoerceHw(r)), "tp"), "conc"))

\* The records coerce_record_types is applied to
HwValues == {Absent, PyNone, PyStr("H100"), PyStr("h100"), PyInt(8)}
PrecisionValues == {Absent, PyNone, PyStr(""), PyStr("FP8"), PyStr("fp8"), PyBool(TRUE)}
IntLikeValues ==
    {Absent, PyNone, PyStr(""), PyInt(8), PyStr("8"), PyStr("1.5"), PyFloat(15),
     PyBool(TRUE), PyStr("abc")}
MetricValues == {Absent, PyNone, PyStr("8"), PyStr("1.5"), PyStr("abc"), PyFloat(15)}

CoerceInputs ==
    {MkDict([k \in {"hw", "hardware", "precision", "tp", "conc", "median_e2el"} |->
                CASE k = "hw" -> hw [] k = "hardware" -> hardware
                  [] k = "precision" -> prec [] k = "tp" -> tp
                  [] k = "conc" -> conc [] k = "median_e2el" -> m]) :
        hw \in HwValues, hardware \in {Absent, PyStr("H100")},
        prec \in PrecisionValues, tp \in IntLikeValues, conc \in {Absent, PyStr("1.5")},
        m \in MetricValues}

InitCoerce ==
    /\ IdleUI /\ IdleSchema /\ IdlePayload /\ IdlePure
    /\ \E r \in CoerceInputs : crHist = <<r>>

\* one more pass of coerce_record_types over the record
CoercePass ==
    /\ Len(crHist) <= MaxPasses
    /\ crHist' = Append(crHist, coerce_record_types(crHist[Len(crHist)]))
    /\ UNCHANGED <<uiVars, schemaVars, payloadVars, pureVars>>

NextCoerce == CoercePass

SpecCoerce == InitCoerce /\ [][NextCoerce]_vars

\* C10: (idempotence) a second pass of coerce_record_types yields a record
\* equal to the result of the first.
C10_Idempotent == Len(crHist) >= 3 => PyEqDict(crHist[3], crHist[2])

(***************************************************************************)
(* scripts/compact_schema_all_examples.py                                  *)
(*                                                                         *)
(* A dict is a function from its keys; the order of its keys is not        *)
(* modelled (schema_signature sorts them).  An item of a file is [py, d]:  *)
(* its class and, for a dict, the dict.                                    *)
(***************************************************************************)
detect_type(v) ==
    CASE v.py = "NoneType" -> "null"
      [] v.py = "bool" -> "bool"
      [] v.py = "int" -> "int"
      [] v.py = "float" -> "float"
      [] v.py = "str" -> "string"
      [] v.py = "list" -> "array"
      [] v.py = "dict" -> "object"
      [] OTHER -> "unknown"

NoStats == [null |-> TRUE, min |-> PyNone, max |-> PyNone]
Stats(lo, hi) == [null |-> FALSE, min |-> lo, max |-> hi]

\* {"len": n}: the example kept for a list of n elements
LenSig(n) == [py |-> "dict", n |-> n, s |-> "len"]

\* {"keys": sorted(val.keys())}: the example kept for an object, v.s naming
\* its sorted keys
KeysSig(v) == [py |-> "dict", n |-> 0, s |-> v.s]

\* entry["examples"] with val added when it is not there yet
AddTo(examples, val) ==
    IF val \in Range(examples) THEN examples ELSE Append(examples, val)

\* An add_example whose entry takes the type of the latest value
PromoteType_Latest(cur, t) == t

\* the type add_example leaves in an entry of type cur on a value of type t
PromoteType(cur, t) == IF cur # t /\ cur # "mixed" THEN "mixed" ELSE cur

\* the examples add_example leaves: strings, booleans and list shapes are kept
ExamplesAfter(examples, val) ==
    IF val.py \in {"str", "bool"} THEN AddTo(examples, val)
    ELSE IF val.py = "list" THEN AddTo(examples, LenSig(val.n))
    ELSE IF val.py = "dict" THEN AddTo(examples, KeysSig(val))
    ELSE examples

\* the numeric_stats add_example leaves
StatsAfter(ns, val) ==
    IF val.py \in {"int", "float"}
    THEN IF ns.null THEN Stats(val, val)
         ELSE Stats(IF Tenths(val) < Tenths(ns.min) THEN val ELSE ns.min,
                    IF Tenths(val) > Tenths(ns.max) THEN val ELSE ns.max)
    ELSE ns

add_example(st, key, val) ==
    LET entry == IF key \in DOMAIN st THEN st[key]
                 ELSE [type |-> detect_type(val), examples |-> <<>>, numeric_stats |-> NoStats]
    IN DictSet(st, key,
               [type |-> PromoteType(entry.type, detect_type(val)),
                examples |-> ExamplesAfter(entry.examples, val),
                numeric_stats |-> StatsAfter(entry.numeric_stats, val)])

\* Python compares str keys by code point
FieldRank(k) == CASE k = "a" -> 1 [] k = "b" -> 2 [] k = "c" -> 3

RECURSIVE SortedKeys(_)
SortedKeys(S) ==
    IF S = {} THEN <<>>
    ELSE LET m == CHOOSE x \in S : \A y \in S : FieldRank(x) <= FieldRank(y)
         IN <<m>> \o SortedKeys(S \ {m})

RECURSIVE AddAll(_, _, _)
AddAll(st, obj, ks) ==
    IF ks = <<>> THEN st
    ELSE AddAll(add_example(st, ks[1], obj[ks[1]]), obj, Tail(ks))

\* analyze_item: every field of a dict item; any other item is ignored.
\* (The fields of one item are distinct keys, so their order does not matter.)
analyze_item(st, it) ==
    IF it.py = "dict" THEN AddAll(st, it.d, SortedKeys(DOMAIN it.d)) ELSE st

\* The schema compact_schema_from_items builds from the store: "examples" is
\* left out when empty, "numeric_stats" when None.
SchemaOf(st) ==
    [k \in DOMAIN st |->
        [type |-> st[k].type,
         has_examples |-> st[k].examples # <<>>,
         examples |-> st[k].examples,
         numeric_stats |-> st[k].numeric_stats]]

\* A signature part that holds numeric_stats itself instead of bool(ns)
SignaturePart_WithRange(k, e) ==
    [key |-> k, type |-> e.type, ns |-> e.numeric_stats,
     examples |-> IF e.has_examples THEN Records(e.examples) ELSE NoRecords]

\* one part of the signature: (k, t, bool(ns), tuple(examples) or None)
SignaturePart(k, e) ==
    [key |-> k, type |-> e.type, ns |-> ~e.numeric_stats.null,
     examples |-> IF e.has_examples THEN Records(e.examples) ELSE NoRecords]

schema_signature(schema) ==
    LET ks == SortedKeys(DOMAIN schema)
    IN [i \in 1..Len(ks) |-> SignaturePart(ks[i], schema[ks[i]])]

\* "sig in sig_to_id" hashes the signature: a tuple holding a dict (the
\* {"len": n} example of a list) raises TypeError.
Hashable(sig) ==
    \A i \in DOMAIN sig : \A x \in Range(sig[i].examples.list) : x.py # "dict"

\* "s{}".format(n)
SchemaId(n) == <<"s", n>>

\* An id numbered from the pool's size, not the size plus one
NewId_OffByOne(pool) == SchemaId(Len(pool))

\* the id a new signature gets
NewId(pool) == SchemaId(Len(pool) + 1)

\* The input directory: its .json files in sorted order
DirListing == <<"f1.json", "f2.json">>

\* The items an input file can hold: objects of a number or a string a and a
\* string b, an object with a list, and a value that is not an object
ItemChoices ==
    {[py |-> "dict", d |-> MkDict([k \in {"a", "b"} |-> IF k = "a" THEN a ELSE b])] :
        a \in {Absent, PyInt(1), PyInt(2), PyStr("x")},
        b \in {Absent, PyStr("x"), PyStr("y")}}
    \cup {[py |-> "dict", d |-> MkDict([k \in {"c"} |-> PyList(1)])]}
    \cup {[py |-> "int", d |-> <<>>]}

InitSchema ==
    /\ IdleUI /\ IdleCoerce /\ IdlePayload /\ IdlePure
    /\ dirList = DirListing
    /\ items = 0
    /\ store = <<>>
    /\ out_files = <<>>
    /\ schema_pool = <<>>
    /\ sig_to_id = <<>>
    /\ files_list = <<>>

\* process_file raises before anything is written (the file is not JSON):
\* main prints the error and goes on with the next file
ParseFail ==
    /\ dirList # <<>>
    /\ items = 0
    /\ dirList' = Tail(dirList)
    /\ UNCHANGED <<items, store, out_files, schema_pool, sig_to_id, files_list>>
    /\ UNCHANGED <<uiVars, coerceVars, payloadVars, pureVars>>

\* compact_schema_from_items: the next item of the current file
AnalyzeItem(it) ==
    /\ dirList # <<>>
    /\ items < MaxItems
    /\ items' = items + 1
    /\ store' = analyze_item(store, it)
    /\ UNCHANGED <<dirList, out_files, schema_pool, sig_to_id, files_list>>
    /\ UNCHANGED <<uiVars, coerceVars, payloadVars, pureVars>>

\* The end of the current file: process_file writes its schema, main signs it
\* and looks the signature up; a signature that cannot be hashed raises and
\* the file is neither listed nor given an id.
FinishFile ==
    /\ dirList # <<>>
    /\ LET fn == Head(dirList)
           schema == SchemaOf(store)
           sig == schema_signature(schema)
       IN /\ out_files' = DictSet(out_files, fn, schema)
          /\ IF ~Hashable(sig)
             THEN UNCHANGED <<schema_pool, sig_to_id, files_list>>
             ELSE IF sig \in DOMAIN sig_to_id
             THEN /\ files_list' = Append(files_list, [filename |-> fn, schema_id |-> sig_to_id[sig]])
                  /\ UNCHANGED <<schema_pool, sig_to_id>>
             ELSE /\ sig_to_id' = DictSet(sig_to_id, sig, NewId(schema_pool))
                  /\ schema_pool' = Append(schema_pool, [id |-> NewId(schema_pool), schema |-> schema])
                  /\ files_list' = Append(files_list, [filename |-> fn, schema_id |-> NewId(schema_pool)])
    /\ dirList' = Tail(dirList)
    /\ items' = 0
    /\ store' = <<>>
    /\ UNCHANGED <<uiVars, coerceVars, payloadVars, pureVars>>

NextSchema ==
    \/ ParseFail
    \/ \E it \in ItemChoices : AnalyzeItem(it)
    \/ FinishFile

SpecSchema == InitSchema /\ [][NextSchema]_vars

(***************************************************************************)
(* Properties of the schema script (checked under SpecSchema).             *)
(***************************************************************************)
\* the files that were given an id, and what process_file wrote for them
Listed == DOMAIN files_list
FileSchema(i) == out_files[files_list[i].filename]
FileSig(i) == schema_signature(FileSchema(i))

SameFields(s1, s2) == DOMAIN s1 = DOMAIN s2
SameTypes(s1, s2) == \A k \in DOMAIN s1 \cap DOMAIN s2 : s1[k].type = s2[k].type
SameStatsPresence(s1, s2) ==
    \A k \in DOMAIN s1 \cap DOMAIN s2 : s1[k].numeric_stats.null = s2[k].numeric_stats.null
SameExamples(s1, s2) ==
    \A k \in DOMAIN s1 \cap DOMAIN s2 :
        s1[k].has_examples = s2[k].has_examples /\ s1[k].examples = s2[k].examples

\* C6: (dedup by shape) two files with the same field names and the same type
\* (and the same presence of numeric_stats) for each field get the same
\* schema_id, whatever examples were observed.
C6_DedupByShape ==
    \A i, j \in Listed :
        (/\ SameFields(FileSchema(i), FileSchema(j))
         /\ SameTypes(FileSchema(i), FileSchema(j))
         /\ SameStatsPresence(FileSchema(i), FileSchema(j)))
        => files_list[i].schema_id = files_list[j].schema_id

\* C7: (numeric ranges are not part of the signature) two files whose schemas
\* have the same fields, types, examples and presence of numeric_stats, and
\* differ at most in the min/max values, have equal signatures and the same
\* schema_id.
C7_RangesExcluded ==
    \A i, j \in Listed :
        (/\ SameFields(FileSchema(i), FileSchema(j))
         /\ SameTypes(FileSchema(i), FileSchema(j))
         /\ SameStatsPresence(FileSchema(i), FileSchema(j))
         /\ SameExamples(FileSchema(i), FileSchema(j)))
        => /\ FileSig(i) = FileSig(j)
           /\ files_list[i].schema_id = files_list[j].schema_id

\* C7 witness: two files with different numeric ranges share an id
C7_Witness ==
    \E i, j \in Listed :
        /\ i # j
        /\ \E k \in DOMAIN FileSchema(i) \cap DOMAIN FileSchema(j) :
              /\ ~FileSchema(i)[k].numeric_stats.null
              /\ ~FileSchema(j)[k].numeric_stats.null
              /\ FileSchema(i)[k].numeric_stats # FileSchema(j)[k].numeric_stats
        /\ files_list[i].schema_id = files_list[j].schema_id

\* the first file listed with the signature of file i
FirstWithSig(i) == CHOOSE m \in Listed : FileSig(m) = FileSig(i) /\ \A n \in Listed : FileSig(n) = FileSig(i) => m <= n
\* the number of distinct signatures among the files listed up to file i
DistinctUpTo(i) == Cardinality({FileSig(m) : m \in 1..i})

\* C8: (pool id assignment) after any prefix of the files, the pool holds the
\* ids s1..sn in that order, n being the number of distinct signatures of the
\* files listed; each file has the id numbered by the first occurrence of its
\* signature (so the ids are a function of the sequence of signatures, equal
\* exactly for equal signatures), and the pool keeps for each id the schema of
\* the first file that had it.
C8_PoolIds ==
    /\ \A n \in DOMAIN schema_pool : schema_pool[n].id = SchemaId(n)
    /\ Len(schema_pool) = Cardinality({FileSig(i) : i \in Listed})
    /\ DOMAIN sig_to_id = {FileSig(i) : i \in Listed}
    /\ \A i \in Listed :
          /\ files_list[i].schema_id = SchemaId(DistinctUpTo(FirstWithSig(i)))
          /\ sig_to_id[FileSig(i)] = files_list[i].schema_id
          /\ schema_pool[DistinctUpTo(FirstWithSig(i))].schema = FileSchema(FirstWithSig(i))
    /\ \A i, j \in Listed :
          files_list[i].schema_id = files_list[j].schema_id <=> FileSig(i) = FileSig(j)

\* C8 witness: the second file's signature was already seen: it reuses s1 and
\* the pool still holds one schema, that of the first file
C8_Witness ==
    /\ Len(files_list) = 2
    /\ files_list[1].schema_id = SchemaId(1)
    /\ files_list[2].schema_id = SchemaId(1)
    /\ Len(schema_pool) = 1
    /\ FileSchema(1) # FileSchema(2)

\* C9: (mixed is monotone) while a file is analyzed, a field's type changes
\* only by becoming mixed, which it does on the first value whose type
\* differs from the recorded one, and a mixed field stays mixed.
C9_MixedMonotone ==
    [][\A k \in DOMAIN store \cap DOMAIN store' :
          /\ store[k].type = "mixed" => store'[k].type = "mixed"
          /\ \A it \in ItemChoices :
                (/\ items' = items + 1
                 /\ store' = analyze_item(store, it)
                 /\ it.py = "dict"
                 /\ k \in DOMAIN it.d)
                => store'[k].type =
                      IF detect_type(it.d[k]) # store[k].type THEN "mixed" ELSE store[k].type]_vars

\* C9 witness: field a saw an int, a str and another int; it is mixed
C9_Witness ==
    /\ items = 3
    /\ "a" \in DOMAIN store
    /\ store["a"].type = "mixed"
    /\ store["a"].numeric_stats = Stats(PyInt(1), PyInt(2))
    /\ store["a"].examples = <<PyStr("x")>>

(***************************************************************************)
(* generate_html.py: build_client_payload.                                 *)
(*                                                                         *)
(* A parsed file is a document [py, items, d]: its class, the items of a   *)
(* list, the dict of a dict.  An item of a list is [py, d] as above.       *)
(***************************************************************************)
\* what load_json_safe returns for a file that does not parse
DocNone == [py |-> "NoneType", items |-> <<>>, d |-> <<>>]
DocList(its) == [py |-> "list", items |-> its, d |-> <<>>]
DocDict(d) == [py |-> "dict", items |-> <<>>, d |-> d]
DictItem(d) == [py |-> "dict", d |-> d]

FILE_MAP ==
    [k \in {"results_70b_1k1k", "results_70b_8k1k", "results_70b_1k8k",
            "results_dsr1_1k1k", "results_dsr1_8k1k", "results_dsr1_1k8k",
            "results_gptoss_1k1k", "results_gptoss_8k1k", "results_gptoss_1k8k"} |->
        CASE k = "results_70b_1k1k" -> [model |-> "Llama-3.3-70B-Instruct", isl |-> "1k", osl |-> "1k"]
          [] k = "results_70b_8k1k" -> [model |-> "Llama-3.3-70B-Instruct", isl |-> "8k", osl |-> "1k"]
          [] k = "results_70b_1k8k" -> [model |-> "Llama-3.3-70B-Instruct", isl |-> "1k", osl |-> "8k"]
          [] k = "results_dsr1_1k1k" -> [model |-> "DeepSeek-R1-0528", isl |-> "1k", osl |-> "1k"]
          [] k = "results_dsr1_8k1k" -> [model |-> "DeepSeek-R1-0528", isl |-> "8k", osl |-> "1k"]
          [] k = "results_dsr1_1k8k" -> [model |-> "DeepSeek-R1-0528", isl |-> "1k", osl |-> "8k"]
          [] k = "results_gptoss_1k1k" -> [model |-> "gpt-oss-120b", isl |-> "1k", osl |-> "1k"]
          [] k = "results_gptoss_8k1k" -> [model |-> "gpt-oss-120b", isl |-> "8k", osl |-> "1k"]
          [] k = "results_gptoss_1k8k" -> [model |-> "gpt-oss-120b", isl |-> "1k", osl |-> "8k"]]

\* The data files of the model, in sorted order
FileNames == <<"other.json", "results_70b_1k1k_a.json", "results_70b_1k1k_b.json">>

\* next((k for k in FILE_MAP if k in p.name), None), "" for None
FileMapKey(name) ==
    CASE name = "results_70b_1k1k_a.json" -> "results_70b_1k1k"
      [] name = "results_70b_1k1k_b.json" -> "results_70b_1k1k"
      [] OTHER -> ""

\* p.stem
Stem(name) ==
    CASE name = "other.json" -> "other"
      [] name = "results_70b_1k1k_a.json" -> "results_70b_1k1k_a"
      [] name = "results_70b_1k1k_b.json" -> "results_70b_1k1k_b"

\* re.sub(r'[-_.]+', ' ', stem) of a file no FILE_MAP key matches
InferredModel(stem) == CASE stem = "other" -> "other"

\* canonicalize_model_name on the model strings of the model: the empty
\* string, FILE_MAP's model names (each matched by its own rule) and a name
\* no rule matches, which is already clean
canonicalize_model_name(raw) ==
    CASE raw = "" -> "unknown"
      [] raw = "Llama-3.3-70B-Instruct" -> "Llama-3.3-70B-Instruct"
      [] raw = "DeepSeek-R1-0528" -> "DeepSeek-R1-0528"
      [] raw = "gpt-oss-120b" -> "gpt-oss-120b"
      [] raw = "other" -> "other"

\* _DISPLAY_MAP.get(canon, canon.replace("-", " "))
display_name_for_canonical(canon) ==
    CASE canon = "gpt-oss-120b" -> "gpt-oss 120B"
      [] OTHER -> canon

\* [it for it in seq if isinstance(it, dict)]
DictsOf(its) == LET ds == SelectSeq(its, LAMBDA it : it.py = "dict")
                IN [i \in 1..Len(ds) |-> ds[i].d]

WrapperKeys == <<"results", "data", "records", "items", "files">>

\* the first wrapper key that is in j and holds a list, 0 when there is none
RECURSIVE FirstListKey(_, _)
FirstListKey(d, i) ==
    IF i > Len(WrapperKeys) THEN 0
    ELSE IF WrapperKeys[i] \in DOMAIN d /\ d[WrapperKeys[i]].py = "list" THEN i
    ELSE FirstListKey(d, i + 1)

normalize_records_from_json(j) ==
    CASE j.py = "NoneType" -> <<>>
      [] j.py = "list" -> DictsOf(j.items)
      [] j.py = "dict" ->
            IF FirstListKey(j.d, 1) # 0
            THEN DictsOf(j.d[WrapperKeys[FirstListKey(j.d, 1)]].items)
            ELSE <<j.d>>
      [] OTHER -> <<>>

\* r.setdefault(k, v)
SetDefault(r, k, v) == IF k \in DOMAIN r THEN r ELSE DictSet(r, k, v)

\* the metadata of FILE_MAP[key] a record gets when it lacks them
InjectMeta(r, key) ==
    SetDefault(SetDefault(SetDefault(SetDefault(r,
        "model", PyStr(FILE_MAP[key].model)),
        "isl", PyStr(FILE_MAP[key].isl)),
        "osl", PyStr(FILE_MAP[key].osl)),
        "file_key", PyStr(key))

\* v is falsy
Falsy(v) == v = PyNone \/ v = PyStr("") \/ (IsNumber(v) /\ v.n = 0)

\* the derived fields of a payload record
Derive(r) ==
    LET orig == IF "model" \in DOMAIN r /\ ~Falsy(r["model"]) THEN r["model"] ELSE PyStr("")
        canon == canonicalize_model_name(StrOf(orig))
    IN DictSet(DictSet(DictSet(r,
        "_model_canonical", PyStr(canon)),
        "_model_display", PyStr(display_name_for_canonical(canon))),
        "model_original", orig)

\* the sample of a deferred entry: from FILE_MAP, or from the file name
DeferredSample(key, name) ==
    IF key # ""
    THEN LET canon == canonicalize_model_name(FILE_MAP[key].model)
         IN [k \in {"_model_canonical", "_model_display", "model", "isl", "osl"} |->
               CASE k = "_model_canonical" -> PyStr(canon)
                 [] k = "_model_display" -> PyStr(display_name_for_canonical(canon))
                 [] k = "model" -> PyStr(FILE_MAP[key].model)
                 [] k = "isl" -> PyStr(FILE_MAP[key].isl)
                 [] k = "osl" -> PyStr(FILE_MAP[key].osl)]
    ELSE LET inferred == InferredModel(Stem(name))
             canon == canonicalize_model_name(inferred)
         IN [k \in {"_model_canonical", "_model_display", "model"} |->
               CASE k = "_model_canonical" -> PyStr(canon)
                 [] k = "_model_display" -> PyStr(display_name_for_canonical(canon))
                 [] k = "model" -> PyStr(inferred)]

\* A tier test that defers a dataset of exactly the limit
IsEager_Strict(n) == n < EMBED_RECORDS_LIMIT

\* len(recs) <= EMBED_RECORDS_LIMIT
IsEager(n) == n <= EMBED_RECORDS_LIMIT

\* The entry of one file.  columns is the set of the records' keys (the
\* order pandas gives the columns is not modelled).
BuildEntry(f) ==
    LET key == FileMapKey(f.name)
        raw == normalize_records_from_json(f.json)
        recs == [i \in 1..Len(raw) |->
                    Derive(coerce_record_types(
                        IF key # "" THEN InjectMeta(raw[i], key) ELSE raw[i]))]
    IN [columns |-> UNION {DOMAIN recs[i] : i \in 1..Len(recs)},
        record_count |-> Len(recs),
        filename |-> f.name,
        records |-> IF IsEager(Len(recs)) THEN Records(recs) ELSE NoRecords,
        sample |-> IF IsEager(Len(recs))
                   THEN (IF recs # <<>> THEN recs[1] ELSE <<>>)
                   ELSE DeferredSample(key, f.name)]

\* key or p.stem
MapKey(name) == IF FileMapKey(name) # "" THEN FileMapKey(name) ELSE Stem(name)

\* The contents a data file can have
PayloadRecord == MkDict([k \in {"hw", "tp"} |-> IF k = "hw" THEN PyStr("H100") ELSE PyStr("8")])
Copies(n) == [i \in 1..n |-> DictItem(PayloadRecord)]
SmallDocs ==
    {DocNone,
     DocList(<<>>),
     DocList(<<DictItem(PayloadRecord), [py |-> "int", d |-> <<>>]>>),
     DocDict(PayloadRecord),
     DocDict(MkDict([k \in {"results"} |-> DocList(Copies(2))]))}
LimitDocs ==
    {DocList(Copies(EMBED_RECORDS_LIMIT)),
     DocList(Copies(EMBED_RECORDS_LIMIT + 1))}
\* the last file, which shares its map key with the one before it, is small
DocChoices(i) ==
    CASE i = 1 -> LimitDocs \cup {DocNone, DocDict(PayloadRecord)}
      [] i = 2 -> LimitDocs \cup SmallDocs
      [] OTHER -> SmallDocs

InitPayload ==
    /\ IdleUI /\ IdleCoerce /\ IdleSchema /\ IdlePure
    /\ \E docs \in [DOMAIN FileNames -> UNION {DocChoices(i) : i \in DOMAIN FileNames}] :
          /\ \A i \in DOMAIN FileNames : docs[i] \in DocChoices(i)
          /\ files = [i \in DOMAIN FileNames |-> [name |-> FileNames[i], json |-> docs[i]]]
    /\ nDone = 0
    /\ client_map = <<>>

\* one turn of build_client_payload's loop
ProcessFile ==
    /\ nDone < Len(files)
    /\ nDone' = nDone + 1
    /\ client_map' = DictSet(client_map, MapKey(files[nDone + 1].name), BuildEntry(files[nDone + 1]))
    /\ UNCHANGED files
    /\ UNCHANGED <<uiVars, coerceVars, schemaVars, pureVars>>

NextPayload == ProcessFile

SpecPayload == InitPayload /\ [][NextPayload]_vars

MaxX == 3

FlatRecord == MkDict([k \in {"hw"} |-> PyStr("H100")])

\* The objects an array can hold: flat records, and objects that have a
\* wrapper key holding an array themselves
ObjectChoices ==
    {DictItem(FlatRecord),
     DictItem(PayloadRecord),
     DictItem(MkDict([k \in {"data"} |-> DocList(<<DictItem(FlatRecord)>>)])),
     DictItem(MkDict([k \in {"results", "hw"} |->
                IF k = "hw" THEN PyStr("H100") ELSE DocList(<<>>)]))}

\* The mappings: hw, and results and data absent, a scalar or an array
MappingChoices ==
    {MkDict([k \in {"hw", "results", "data"} |->
                CASE k = "hw" -> PyStr("H100") [] k = "results" -> r [] k = "data" -> d]) :
        r \in {Absent, PyStr("abc"), DocList(<<DictItem(FlatRecord)>>)},
        d \in {Absent, PyInt(8), DocList(<<DictItem(PayloadRecord), [py |-> "int", d |-> <<>>]>>)}}

\* the lists of records of normalize_records_from_json(x) for x in X, joined
RECURSIVE NormalizeEachOf(_)
NormalizeEachOf(X) ==
    IF X = <<>> THEN <<>>
    ELSE normalize_records_from_json(DocDict(Head(X).d)) \o NormalizeEachOf(Tail(X))

InitNormalize ==
    /\ IdleUI /\ IdleCoerce /\ IdleSchema /\ IdlePayload /\ IdleTraces /\ IdleCanon
    /\ \E n \in 0..MaxX : nrX \in [1..n -> ObjectChoices]
    /\ nrMap \in MappingChoices
    /\ nrOut = <<>>

NormalizeCall(name, result) ==
    /\ name \notin DOMAIN nrOut
    /\ nrOut' = DictSet(nrOut, name, result)
    /\ UNCHANGED <<nrX, nrMap>>
    /\ UNCHANGED <<uiVars, coerceVars, schemaVars, payloadVars, tracesVars, canonVars>>

NormalizeWrapped ==
    NormalizeCall("wrapped",
        normalize_records_from_json(DocDict([k \in {"results"} |-> DocList(nrX)])))
NormalizeBare == NormalizeCall("bare", normalize_records_from_json(DocList(nrX)))
NormalizeEach == NormalizeCall("each", NormalizeEachOf(nrX))
NormalizeMapping == NormalizeCall("map", normalize_records_from_json(DocDict(nrMap)))

NextNormalize == NormalizeWrapped \/ NormalizeBare \/ NormalizeEach \/ NormalizeMapping

SpecNormalize == InitNormalize /\ [][NextNormalize]_vars

\* how many times r occurs in the list a
Occurrences(a, r) == Cardinality({i \in DOMAIN a : a[i] = r})
\* the lists a and b hold the same multiset
SameMultiset(a, b) ==
    /\ Len(a) = Len(b)
    /\ \A i \in DOMAIN a : Occurrences(a, a[i]) = Occurrences(b, a[i])

\* C11: (shape equivalence) for an array X of objects, the records extracted
\* from {"results": X}, from X, and from the elements of X one by one and
\* joined, are the same multiset.
C11_ShapeEquivalence ==
    {"wrapped", "bare", "each"} \subseteq DOMAIN nrOut =>
        /\ SameMultiset(nrOut["wrapped"], nrOut["bare"])
        /\ SameMultiset(nrOut["bare"], nrOut["each"])

\* the first wrapper key present in mapping d, 0 when there is none
RECURSIVE FirstPresentKey(_, _)
FirstPresentKey(d, i) ==
    IF i > Len(WrapperKeys) THEN 0
    ELSE IF WrapperKeys[i] \in DOMAIN d THEN i
    ELSE FirstPresentKey(d, i + 1)

\* C18: (wrapper-key selection) for a mapping, only the first wrapper key
\* present counts: when its value is a sequence the mapping-typed elements of
\* that sequence are the records, otherwise the mapping itself is the sole
\* record.
C18_WrapperKeySelection ==
    "map" \in DOMAIN nrOut =>
        LET i == FirstPresentKey(nrMap, 1) IN
        nrOut["map"] =
            IF i # 0 /\ nrMap[WrapperKeys[i]].py = "list"
            THEN DictsOf(nrMap[WrapperKeys[i]].items)
            ELSE <<nrMap>>

(***************************************************************************)
(* Client script: buildTraces.                                             *)
(*                                                                         *)
(* A JavaScript value is a value as above: null is PyNone, a number an     *)
(* int, undefined is a key the record does not have (Absent when read).    *)
(***************************************************************************)
MaxRecs == 3

\* r[k]
Get(r, k) == IF k \in DOMAIN r THEN r[k] ELSE Absent

\* Number(v): [nan, n]
JsNumber(v) ==
    CASE v.py = "int" -> [nan |-> FALSE, n |-> v.n]
      [] v.py = "NoneType" -> [nan |-> FALSE, n |-> 0]
      [] v.py = "str" ->
            (CASE v.s = "" -> [nan |-> FALSE, n |-> 0]
               [] v.s = "1" -> [nan |-> FALSE, n |-> 1]
               [] v.s = "2" -> [nan |-> FALSE, n |-> 2]
               [] v.s = "10" -> [nan |-> FALSE, n |-> 10]
               [] v.s = "20" -> [nan |-> FALSE, n |-> 20]
               [] OTHER -> [nan |-> TRUE, n |-> 0])
      [] OTHER -> [nan |-> TRUE, n |-> 0]

\* String(v)
JsString(v) ==
    CASE v.py = "str" -> v.s
      [] v.py = "NoneType" -> "null"
      [] v.py = "absent" -> "undefined"
      [] v.py = "int" /\ v.n = 1 -> "1"
      [] v.py = "int" /\ v.n = 2 -> "2"
      [] v.py = "int" /\ v.n = 10 -> "10"
      [] v.py = "int" /\ v.n = 20 -> "20"

\* !v
JsFalsy(v) == v.py \in {"absent", "NoneType"} \/ v = PyStr("") \/ (v.py = "int" /\ v.n = 0)

\* a.localeCompare(b) < 0 iff LocaleRank(a) < LocaleRank(b), on the strings
\* of the model: the empty string first, digits before letters
LocaleRank(x) ==
    CASE x = "" -> 0
      [] x = "1" -> 1
      [] x = "10" -> 2
      [] x = "1x" -> 3
      [] x = "2" -> 4
      [] x = "20" -> 5
      [] x = "none" -> 6
      [] x = "null" -> 7
      [] x = "undefined" -> 8

\* the order of Array.prototype.sort() without a comparator (code units)
CodeUnitRank(x) ==
    CASE x = "b200" -> 1
      [] x = "h100" -> 2
      [] x = "unknown" -> 3

\* (r.hw||r.hardware||'unknown').toString().toLowerCase()
HwOf(r) ==
    Lower(JsString(IF ~JsFalsy(Get(r, "hw")) THEN r["hw"]
                   ELSE IF ~JsFalsy(Get(r, "hardware")) THEN r["hardware"]
                   ELSE PyStr("unknown")))

\* (r.tp===undefined||r.tp==='') ? 'none' : String(r.tp)
TpOf(r) ==
    IF Get(r, "tp") = Absent \/ Get(r, "tp") = PyStr("") THEN "none"
    ELSE JsString(r["tp"])

\* the two filters of buildTraces
Filtered(records, tpFilter, precFilter) ==
    LET byPrec == IF precFilter # "" /\ precFilter # "all"
                  THEN SelectSeq(records, LAMBDA r :
                         Lower(JsString(IF JsFalsy(Get(r, "precision")) THEN PyStr("")
                                        ELSE r["precision"])) = precFilter)
                  ELSE records
    IN IF tpFilter # "" /\ tpFilter # "all"
       THEN SelectSeq(byPrec, LAMBDA r : JsString(Get(r, "tp")) = tpFilter)
       ELSE byPrec

\* groups[hw][tp]
GroupRows(recs, hw, tp) == SelectSeq(recs, LAMBDA r : HwOf(r) = hw /\ TpOf(r) = tp)

\* the set S as a list in ascending rank
RECURSIVE SortSetBy(_, _)
SortSetBy(S, rank) ==
    IF S = {} THEN <<>>
    ELSE LET m == CHOOSE x \in S : \A y \in S : rank[x] <= rank[y]
         IN <<m>> \o SortSetBy(S \ {m}, rank)

\* Object.keys(groups).sort()
HwKeys(recs) ==
    LET S == {HwOf(recs[i]) : i \in DOMAIN recs}
    IN SortSetBy(S, [x \in S |-> CodeUnitRank(x)])

\* the list without the repetitions of its elements
RECURSIVE FirstSeen(_)
FirstSeen(l) ==
    IF l = <<>> THEN <<>>
    ELSE LET rest == FirstSeen(SelectSeq(l, LAMBDA x : x # Head(l)))
         IN <<Head(l)>> \o rest

\* a property key that is an array index
IsIndexKey(k) == k \in {"1", "2", "10", "20"}

\* Object.keys(groups[hw]): the index keys in ascending order, then the
\* other keys in the order they were created
TpObjectKeys(recs, hw) ==
    LET mine == SelectSeq(recs, LAMBDA r : HwOf(r) = hw)
        ks == FirstSeen([i \in DOMAIN mine |-> TpOf(mine[i])])
        idx == {k \in Range(ks) : IsIndexKey(k)}
    IN SortSetBy(idx, [k \in idx |-> JsNumber(PyStr(k)).n])
       \o SelectSeq(ks, LAMBDA k : ~IsIndexKey(k))

\* the comparator of the tp keys
TpCmp(a, b) ==
    LET na == JsNumber(PyStr(a))
        nb == JsNumber(PyStr(b))
    IN IF ~na.nan /\ ~nb.nan THEN na.n - nb.n
       ELSE LocaleRank(a) - LocaleRank(b)

\* the comparator of the rows
ConcCmp(a, b) ==
    LET na == JsNumber(Get(a, "conc"))
        nb == JsNumber(Get(b, "conc"))
        sa == JsString(IF JsFalsy(Get(a, "conc")) THEN PyStr("") ELSE a["conc"])
        sb == JsString(IF JsFalsy(Get(b, "conc")) THEN PyStr("") ELSE b["conc"])
    IN IF ~na.nan /\ ~nb.nan THEN na.n - nb.n
       ELSE LocaleRank(sa) - LocaleRank(sb)

\* Array.prototype.sort is stable: insertion of k into the sorted list l
RECURSIVE InsertTp(_, _)
InsertTp(l, k) ==
    IF l # <<>> /\ TpCmp(l[Len(l)], k) > 0
    THEN Append(InsertTp(SubSeq(l, 1, Len(l) - 1), k), l[Len(l)])
    ELSE Append(l, k)
RECURSIVE SortTp(_)
SortTp(l) == IF l = <<>> THEN <<>> ELSE InsertTp(SortTp(SubSeq(l, 1, Len(l) - 1)), l[Len(l)])

RECURSIVE InsertRow(_, _)
InsertRow(l, r) ==
    IF l # <<>> /\ ConcCmp(l[Len(l)], r) > 0
    THEN Append(InsertRow(SubSeq(l, 1, Len(l) - 1), r), l[Len(l)])
    ELSE Append(l, r)
RECURSIVE SortRows(_)
SortRows(l) == IF l = <<>> THEN <<>> ELSE InsertRow(SortRows(SubSeq(l, 1, Len(l) - 1)), l[Len(l)])

\* TpCmp orders the keys S consistently (it is transitive on them)
ConsistentTp(S) ==
    \A a, b, c \in S : TpCmp(a, b) <= 0 /\ TpCmp(b, c) <= 0 => TpCmp(a, c) <= 0

\* The orders the sort of the tp keys can give: the sorted one, or, when the
\* comparator is not consistent on the keys, an order the implementation
\* chooses
TpKeyOrders(ks) ==
    IF ConsistentTp(Range(ks)) THEN {SortTp(ks)}
    ELSE {p \in [DOMAIN ks -> Range(ks)] : Range(p) = Range(ks)}

\* const n = Number(v); Number.isNaN(n) ? v : n
NumberOr(v) == IF JsNumber(v).nan THEN v ELSE PyInt(JsNumber(v).n)

\* the trace of one (hw, tp) bucket, with xcol = 'conc' and ycol = 'median_e2el'
Trace(recs, hw, tp) ==
    LET rows == SortRows(GroupRows(recs, hw, tp))
    IN [hw |-> hw, tp |-> tp,
        name |-> <<hw, IF tp # "none" THEN <<" tp=", tp>> ELSE <<>> >>,
        rows |-> rows,
        x |-> [i \in DOMAIN rows |-> NumberOr(Get(rows[i], "conc"))],
        y |-> [i \in DOMAIN rows |-> NumberOr(Get(rows[i], "median_e2el"))],
        text |-> [i \in DOMAIN rows |->
                    IF Get(rows[i], "conc") \notin {Absent, PyNone, PyStr("")}
                    THEN JsString(rows[i]["conc"]) ELSE ""]]

\* the traces of the hardware names hws, order[hw] being the sorted tp keys
RECURSIVE TracesOf(_, _, _)
TracesOf(recs, hws, order) ==
    IF hws = <<>> THEN <<>>
    ELSE [i \in DOMAIN order[Head(hws)] |-> Trace(recs, Head(hws), order[Head(hws)][i])]
         \o TracesOf(recs, Tail(hws), order)

\* The results buildTraces(records, 'conc', 'median_e2el', _, tpFilter,
\* precFilter) can have
buildTraces(records, tpFilter, precFilter) ==
    IF records = <<>> THEN {<<>>}
    ELSE LET recs == Filtered(records, tpFilter, precFilter)
             hws == HwKeys(recs)
         IN {TracesOf(recs, hws, order) :
                order \in {o \in [Range(hws) -> UNION {TpKeyOrders(TpObjectKeys(recs, h)) : h \in Range(hws)}] :
                             \A h \in Range(hws) : o[h] \in TpKeyOrders(TpObjectKeys(recs, h))}}

\* The records given to buildTraces
TraceRecord(hw, tp, conc) ==
    MkDict([k \in {"hw", "tp", "conc", "precision", "median_e2el"} |->
        CASE k = "hw" -> PyStr(hw)
          [] k = "tp" -> tp
          [] k = "conc" -> conc
          [] k = "precision" -> PyStr("fp8")
          [] k = "median_e2el" -> PyInt(5)])
TraceRecords ==
    {TraceRecord("h100", tp, conc) :
        tp \in {Absent, PyInt(2), PyInt(10), PyStr("1x")},
        conc \in {Absent, PyNone, PyStr(""), PyInt(10), PyInt(20)}}
    \cup {TraceRecord("b200", PyInt(2), conc) : conc \in {Absent, PyInt(10)}}
TraceArgs ==
    {[tpFilter |-> "all", precFilter |-> "all"],
     [tpFilter |-> "2", precFilter |-> "all"],
     [tpFilter |-> "all", precFilter |-> "fp8"]}

InitTraces ==
    /\ IdleUI /\ IdleCoerce /\ IdleSchema /\ IdlePayload /\ IdleNormalize /\ IdleCanon
    /\ \E n \in 0..MaxRecs : btRecs \in [1..n -> TraceRecords]
    /\ btArgs \in TraceArgs
    /\ btTraces = [ran |-> FALSE, traces |-> <<>>]

BuildTraces ==
    /\ ~btTraces.ran
    /\ \E t \in buildTraces(btRecs, btArgs.tpFilter, btArgs.precFilter) :
          btTraces' = [ran |-> TRUE, traces |-> t]
    /\ UNCHANGED <<btRecs, btArgs>>
    /\ UNCHANGED <<uiVars, coerceVars, schemaVars, payloadVars, normalizeVars, canonVars>>

NextTraces == BuildTraces

SpecTraces == InitTraces /\ [][NextTraces]_vars

\* the record has a concurrency value
HasConc(r) == Get(r, "conc") \notin {Absent, PyNone, PyStr("")}

\* the number of points of the traces T
RECURSIVE Points(_)
Points(T) == IF T = <<>> THEN 0 ELSE Len(Head(T).x) + Points(Tail(T))

\* C12: (records without concurrency are excluded) no point of a trace comes
\* from a record whose conc is undefined, null or empty, and the traces have
\* as many points as there are filtered records with a conc value.
C12_NoConcExcluded ==
    btTraces.ran =>
        /\ \A i \in DOMAIN btTraces.traces :
              \A j \in DOMAIN btTraces.traces[i].rows : HasConc(btTraces.traces[i].rows[j])
        /\ Points(btTraces.traces) =
              Len(SelectSeq(Filtered(btRecs, btArgs.tpFilter, btArgs.precFilter), HasConc))

\* tp key a is to come before tp key b: numerically when both are numbers,
\* a number before any other key, the other keys lexically
TpBefore(a, b) ==
    LET na == JsNumber(PyStr(a))
        nb == JsNumber(PyStr(b))
    IN CASE ~na.nan /\ ~nb.nan -> na.n < nb.n
         [] ~na.nan /\ nb.nan -> TRUE
         [] na.nan /\ ~nb.nan -> FALSE
         [] OTHER -> LocaleRank(a) < LocaleRank(b)

\* C13: (deterministic bucket order) the traces come by hardware name
\* ascending and, within one hardware, by tp ascending as numbers, the keys
\* that are not numbers after all the numbers and in lexical order.
C13_BucketOrder ==
    btTraces.ran =>
        \A i, j \in DOMAIN btTraces.traces :
            i < j =>
                \/ CodeUnitRank(btTraces.traces[i].hw) < CodeUnitRank(btTraces.traces[j].hw)
                \/ /\ btTraces.traces[i].hw = btTraces.traces[j].hw
                   /\ TpBefore(btTraces.traces[i].tp, btTraces.traces[j].tp)

(***************************************************************************)
(* Properties of build_client_payload over several files.                  *)
(***************************************************************************)
\* the files processed so far whose entry is stored under map key mk
FilesOfKey(mk) == {i \in 1..nDone : MapKey(files[i].name) = mk}

\* the number of records of the files I
RECURSIVE RecordsOf(_)
RecordsOf(I) ==
    IF I = {} THEN 0
    ELSE LET i == CHOOSE x \in I : TRUE
         IN Len(normalize_records_from_json(files[i].json)) + RecordsOf(I \ {i})

\* C14: (no file's records are lost) when the files stored under one map key
\* are all eager, the entry of that key holds the records of every one of
\* them, so that the series builder gets one point per record of each file.
C14_NoFileLost ==
    \A mk \in DOMAIN client_map :
        (\A i \in FilesOfKey(mk) :
            IsEager(Len(normalize_records_from_json(files[i].json))))
        => /\ ~client_map[mk].records.null
           /\ Len(client_map[mk].records.list) = RecordsOf(FilesOfKey(mk))

\* the files processed so far that parsed
Parsed == {i \in 1..nDone : files[i].json # DocNone}

\* C15: (per-file failure isolation) a file that fails to parse has no entry
\* in the payload, and the entry of every map key is the one the files that
\* did parse give: that of the last of them stored under the key.
C15_FailureIsolation ==
    /\ \A i \in 1..nDone :
          files[i].json = DocNone =>
              \A mk \in DOMAIN client_map : client_map[mk].filename # files[i].name
    /\ \A i \in Parsed :
          (\A j \in Parsed : MapKey(files[j].name) = MapKey(files[i].name) => j <= i)
          => /\ MapKey(files[i].name) \in DOMAIN client_map
             /\ client_map[MapKey(files[i].name)] = BuildEntry(files[i])

(***************************************************************************)
(* Model name canonicalization, character by character: the batch path     *)
(* (canonicalize_model_name, display_name_for_canonical), the lazy-load    *)
(* path of the client script (loadRecordsIfNeeded) and the client helper   *)
(* canonicalizeModelFromString.  A string is the sequence of its           *)
(* characters.                                                             *)
(***************************************************************************)
MaxSuffixes == 2

\* the literals of the source
Lit ==
    [unknown |-> <<"u", "n", "k", "n", "o", "w", "n">>,
     nvidia |-> <<"n", "v", "i", "d", "i", "a", "/">>,
     amd |-> <<"a", "m", "d", "/">>,
     deepseek_ai |-> <<"d", "e", "e", "p", "s", "e", "e", "k", "-", "a", "i", "/">>,
     openai |-> <<"o", "p", "e", "n", "a", "i", "/">>,
     mnt |-> <<"/", "m", "n", "t", "/">>,
     models |-> <<"/", "m", "o", "d", "e", "l", "s", "/">>,
     fp8 |-> <<"f", "p", "8">>,
     fp4 |-> <<"f", "p", "4">>,
     mxfp4 |-> <<"m", "x", "f", "p", "4">>,
     mxpf4 |-> <<"m", "x", "p", "f", "4">>,
     kv |-> <<"k", "v">>,
     preview |-> <<"p", "r", "e", "v", "i", "e", "w">>,
     llama |-> <<"l", "l", "a", "m", "a">>,
     three |-> <<"3">>,
     b70 |-> <<"7", "0", "b">>,
     instruct |-> <<"i", "n", "s", "t", "r", "u", "c", "t">>,
     deepseek |-> <<"d", "e", "e", "p", "s", "e", "e", "k">>,
     r1 |-> <<"r", "1">>,
     n0528 |-> <<"0", "5", "2", "8">>,
     gpt_oss_120b |-> <<"g", "p", "t", "-", "o", "s", "s", "-", "1", "2", "0", "b">>,
     gptoss_120b |-> <<"g", "p", "t", "o", "s", "s", "-", "1", "2", "0", "b">>,
     Llama |-> <<"L", "l", "a", "m", "a", "-", "3", ".", "3", "-", "7", "0", "B", "-", "I", "n", "s", "t", "r", "u", "c", "t">>,
     DeepSeek |-> <<"D", "e", "e", "p", "S", "e", "e", "k", "-", "R", "1", "-", "0", "5", "2", "8">>,
     gpt_oss_display |-> <<"g", "p", "t", "-", "o", "s", "s", " ", "1", "2", "0", "B">>]

Take(cs, n) == SubSeq(cs, 1, n)
Drop(cs, n) == SubSeq(cs, n + 1, Len(cs))
StartsWith(cs, p) == Len(cs) >= Len(p) /\ Take(cs, Len(p)) = p

\* the first place at or after from where p occurs in cs, 0 when there is none
IndexOf(cs, p, from) ==
    LET I == {i \in from..(Len(cs) - Len(p) + 1) : SubSeq(cs, i, i + Len(p) - 1) = p}
    IN IF I = {} THEN 0 ELSE CHOOSE i \in I : \A j \in I : i <= j

\* c.lower() of one character
LowerChar(c) ==
    CASE c = "B" -> "b" [] c = "D" -> "d" [] c = "F" -> "f" [] c = "I" -> "i"
      [] c = "L" -> "l" [] c = "R" -> "r" [] c = "S" -> "s"
      [] OTHER -> c
LowerChars(cs) == [i \in DOMAIN cs |-> LowerChar(cs[i])]

IsDigit(c) == c \in {"0", "1", "2", "3", "4", "5", "6", "7", "8", "9"}

\* cs without the characters of C at its two ends
RECURSIVE StripChars(_, _)
StripChars(cs, C) ==
    IF cs = <<>> THEN cs
    ELSE IF cs[1] \in C THEN StripChars(Drop(cs, 1), C)
    ELSE IF cs[Len(cs)] \in C THEN StripChars(Take(cs, Len(cs) - 1), C)
    ELSE cs

\* every longest run of characters of C in cs replaced by the character c
RECURSIVE ReplaceRuns(_, _, _)
ReplaceRuns(cs, C, c) ==
    IF cs = <<>> THEN cs
    ELSE IF cs[1] \in C
         THEN IF Len(cs) > 1 /\ cs[2] \in C THEN ReplaceRuns(Drop(cs, 1), C, c)
              ELSE <<c>> \o ReplaceRuns(Drop(cs, 1), C, c)
         ELSE <<cs[1]>> \o ReplaceRuns(Drop(cs, 1), C, c)

\* every character of C in cs replaced by the character c
ReplaceEach(cs, C, c) == [i \in DOMAIN cs |-> IF cs[i] \in C THEN c ELSE cs[i]]

\* the patterns ps occur in cs one after the other: re.search(p1.*p2.*...)
RECURSIVE ContainsInOrder(_, _)
ContainsInOrder(cs, ps) ==
    IF ps = <<>> THEN TRUE
    ELSE LET i == IndexOf(cs, Head(ps), 1)
         IN i # 0 /\ ContainsInOrder(Drop(cs, i + Len(Head(ps)) - 1), Tail(ps))

\* ^(nvidia/|amd/|deepseek-ai/|openai/|/mnt/.*?/models/) removed
StripVendorPrefix(cs) ==
    CASE StartsWith(cs, Lit.nvidia) -> Drop(cs, Len(Lit.nvidia))
      [] StartsWith(cs, Lit.amd) -> Drop(cs, Len(Lit.amd))
      [] StartsWith(cs, Lit.deepseek_ai) -> Drop(cs, Len(Lit.deepseek_ai))
      [] StartsWith(cs, Lit.openai) -> Drop(cs, Len(Lit.openai))
      [] StartsWith(cs, Lit.mnt) /\ IndexOf(cs, Lit.models, Len(Lit.mnt) + 1) # 0 ->
            Drop(cs, IndexOf(cs, Lit.models, Len(Lit.mnt) + 1) + Len(Lit.models) - 1)
      [] OTHER -> cs

\* the number of digits cs begins with
RECURSIVE DigitRun(_)
DigitRun(cs) == IF cs # <<>> /\ IsDigit(cs[1]) THEN 1 + DigitRun(Drop(cs, 1)) ELSE 0

SuffixWords == {Lit.fp8, Lit.fp4, Lit.mxfp4, Lit.mxpf4, Lit.kv, Lit.preview}

\* the lengths of the beginnings of cs that match
\* fp8|fp4|mxfp4|mxpf4|kv|preview|v\d+|-v\d+
PyTokenLens(cs) ==
    {Len(w) : w \in {x \in SuffixWords : StartsWith(cs, x)}}
    \cup (IF StartsWith(cs, <<"v">>) THEN {1 + k : k \in 1..DigitRun(Drop(cs, 1))} ELSE {})
    \cup (IF StartsWith(cs, <<"-", "v">>) THEN {2 + k : k \in 1..DigitRun(Drop(cs, 2))} ELSE {})

\* the lengths of the beginnings of cs that match [-_/]?(?:...)
PyUnitLens(cs) ==
    PyTokenLens(cs)
    \cup (IF cs # <<>> /\ cs[1] \in {"-", "_", "/"}
          THEN {1 + n : n \in PyTokenLens(Drop(cs, 1))} ELSE {})

\* cs matches (?:[-_/]?(?:...))+ as a whole
RECURSIVE PyIsSuffix(_)
PyIsSuffix(cs) ==
    \E n \in PyUnitLens(cs) : n = Len(cs) \/ PyIsSuffix(Drop(cs, n))

\* _suffix_re.sub("", cs): the leftmost match that reaches the end is removed
PyStripSuffix(cs) ==
    LET I == {i \in 1..Len(cs) : PyIsSuffix(Drop(cs, i - 1))}
    IN IF I = {} THEN cs ELSE Take(cs, (CHOOSE i \in I : \A j \in I : i <= j) - 1)

\* cs matches \-?fp8|\-?fp4|\-?mxfp4|\-?mxpf4|\-?kv|\-?preview|\-v?\d+ as a whole
JsIsSuffix(cs) ==
    \/ cs \in SuffixWords
    \/ cs # <<>> /\ cs[1] = "-" /\ Drop(cs, 1) \in SuffixWords
    \/ /\ Len(cs) >= 2 /\ cs[1] = "-"
       /\ LET ds == IF cs[2] = "v" THEN Drop(cs, 2) ELSE Drop(cs, 1)
          IN ds # <<>> /\ DigitRun(ds) = Len(ds)

\* s.replace(/(...)$/i, ''): the leftmost match that reaches the end is removed
JsStripSuffix(cs) ==
    LET I == {i \in 1..Len(cs) : JsIsSuffix(Drop(cs, i - 1))}
    IN IF I = {} THEN cs ELSE Take(cs, (CHOOSE i \in I : \A j \in I : i <= j) - 1)

\* the three rules that map a cleaned name to a canonical id; <<>> when none
\* applies (no rule gives the empty string)
KnownModel(cs) ==
    CASE ContainsInOrder(cs, <<Lit.llama, Lit.three, Lit.b70, Lit.instruct>>) -> Lit.Llama
      [] ContainsInOrder(cs, <<Lit.deepseek, Lit.r1, Lit.n0528>>) -> Lit.DeepSeek
      [] IndexOf(cs, Lit.gpt_oss_120b, 1) # 0 \/ IndexOf(cs, Lit.gptoss_120b, 1) # 0 -> Lit.gpt_oss_120b
      [] OTHER -> <<>>

\* canonicalize_model_name, on the characters of raw
canonicalize_model_name_chars(raw) ==
    IF raw = <<>> THEN Lit.unknown
    ELSE LET s == StripChars(raw, {" "})
             a == PyStripSuffix(StripVendorPrefix(LowerChars(s)))
             b == ReplaceEach(a, {"\\", "/"}, "-")
             c == ReplaceRuns(b, {"_", " "}, "-")
             s_low == StripChars(ReplaceRuns(c, {"-"}, "-"), {"-"})
         IN IF KnownModel(s_low) # <<>> THEN KnownModel(s_low)
            ELSE IF s_low # <<>> THEN s_low ELSE s

\* display_name_for_canonical, on the characters of canon
display_name_for_canonical_chars(canon) ==
    IF canon = Lit.gpt_oss_120b THEN Lit.gpt_oss_display
    ELSE IF canon \in {Lit.Llama, Lit.DeepSeek} THEN canon
    ELSE ReplaceEach(canon, {"-"}, " ")

\* loadRecordsIfNeeded: r._model_canonical of a record whose r.model || '' is orig
LazyCanonical(orig) ==
    LET a == JsStripSuffix(StripVendorPrefix(LowerChars(orig)))
        b == ReplaceRuns(a, {"/", "_", " "}, "-")
        s == StripChars(ReplaceRuns(b, {"-"}, "-"), {"-"})
    IN IF KnownModel(s) # <<>> THEN KnownModel(s)
       ELSE IF s # <<>> THEN s ELSE orig

\* loadRecordsIfNeeded: r._model_display
LazyDisplay(canon) == IF canon = Lit.gpt_oss_120b THEN Lit.gpt_oss_display ELSE canon

\* canonicalizeModelFromString
canonicalizeModelFromString(raw) ==
    IF raw = <<>> THEN Lit.unknown
    ELSE LET a == JsStripSuffix(StripVendorPrefix(LowerChars(StripChars(raw, {" "}))))
             b == ReplaceRuns(a, {"/", ",", "_", " "}, "-")
             s == StripChars(ReplaceRuns(b, {"-"}, "-"), {"-"})
         IN IF KnownModel(s) # <<>> THEN KnownModel(s)
            ELSE IF s # <<>> THEN s ELSE raw

\* The raw model strings: a prefix, a name and up to MaxSuffixes suffixes
RawPrefixes == {<<>>, Lit.nvidia, <<" ">>}
RawNames == {<<>>, <<"f", "o", "o">>, <<"F", "o", "o", "_", "B", "a", "r">>, Lit.Llama, Lit.DeepSeek, Lit.gpt_oss_120b}
RawSuffixes == {<<"-", "f", "p", "8">>, <<"_", "f", "p", "8">>, <<"/", "k", "v">>, <<"-", "k", "v">>, <<"-", "v", "2">>}
RECURSIVE Join(_)
Join(l) == IF l = <<>> THEN <<>> ELSE Head(l) \o Join(Tail(l))
RawStrings ==
    {p \o b \o Join(sfx) :
        p \in RawPrefixes, b \in RawNames,
        sfx \in UNION {[1..n -> RawSuffixes] : n \in 0..MaxSuffixes}}

InitCanon ==
    /\ IdleUI /\ IdleCoerce /\ IdleSchema /\ IdlePayload /\ IdleNormalize /\ IdleTraces
    /\ cnRaw \in RawStrings
    /\ cnOut = <<>>

CanonCall(name, result) ==
    /\ name \notin DOMAIN cnOut
    /\ cnOut' = DictSet(cnOut, name, result)
    /\ UNCHANGED cnRaw
    /\ UNCHANGED <<uiVars, coerceVars, schemaVars, payloadVars, normalizeVars, tracesVars>>

\* build_client_payload: the derived fields of a record whose model is cnRaw
BatchCanon ==
    CanonCall("batch",
        [canonical |-> canonicalize_model_name_chars(cnRaw),
         display |-> display_name_for_canonical_chars(canonicalize_model_name_chars(cnRaw))])

\* loadRecordsIfNeeded: the derived fields of a record whose model is cnRaw
LazyCanon ==
    CanonCall("lazy",
        [canonical |-> LazyCanonical(cnRaw),
         display |-> LazyDisplay(LazyCanonical(cnRaw))])

\* buildModels: canonicalizeModelFromString(cnRaw)
HelperCanon ==
    CanonCall("helper",
        [canonical |-> canonicalizeModelFromString(cnRaw),
         display |-> canonicalizeModelFromString(cnRaw)])

NextCanon == BatchCanon \/ LazyCanon \/ HelperCanon

SpecCanon == InitCanon /\ [][NextCanon]_vars

\* C16: (batch and client canonicalization agree) the canonical id and the
\* display name the batch path computes for a raw model string equal the
\* _model_canonical and _model_display the lazy-load path of the client
\* derives for the same string.
C16_CanonAgree ==
    {"batch", "lazy"} \subseteq DOMAIN cnOut =>
        /\ cnOut["batch"].canonical = cnOut["lazy"].canonical
        /\ cnOut["batch"].display = cnOut["lazy"].display

(***************************************************************************)
(* compact_schema_all_examples.py: add_example called on a store over and  *)
(* over, with values seen before and values that are new.                  *)
(***************************************************************************)
\* the size the example set of a field is to stay within
ExampleCap == 20
\* how many distinct strings a field is given
MaxExamples == ExampleCap + 1

ExampleStrings == <<"v01", "v02", "v03", "v04", "v05", "v06", "v07", "v08", "v09", "v10", "v11", "v12", "v13", "v14", "v15", "v16", "v17", "v18", "v19", "v20", "v21", "v22", "v23", "v24">>

\* an object with the one key k
ObjectValue == [py |-> "dict", n |-> 1, s |-> "k"]

\* The values field key can be given next: a string it has seen, the next
\* new string, and for field b a boolean, a number and an object as well
NextValues(st, key) ==
    LET seen == IF key \in DOMAIN st
                THEN Cardinality({i \in DOMAIN st[key].examples : st[key].examples[i].py = "str"})
                ELSE 0
    IN {PyStr(ExampleStrings[j]) : j \in 1..(IF seen < MaxExamples THEN seen + 1 ELSE seen)}
       \cup (IF key = "b" /\ seen <= 1 THEN {PyBool(TRUE), PyInt(1), ObjectValue} ELSE {})

InitExamples ==
    /\ IdleUI /\ IdleCoerce /\ IdlePayload /\ IdlePure
    /\ IdleSchema

AddExample ==
    /\ \E key \in {"a", "b"} : \E val \in NextValues(store, key) :
          store' = add_example(store, key, val)
    /\ UNCHANGED <<dirList, items, out_files, schema_pool, sig_to_id, files_list>>
    /\ UNCHANGED <<uiVars, coerceVars, payloadVars, pureVars>>

NextExamples == AddExample

SpecExamples == InitExamples /\ [][NextExamples]_vars

\* C17: (bounded example sets) the example set of every field holds no value
\* twice and never more than ExampleCap values.
C17_BoundedExamples ==
    \A k \in DOMAIN store :
        /\ \A i, j \in DOMAIN store[k].examples :
              store[k].examples[i] = store[k].examples[j] => i = j
        /\ Len(store[k].examples) <= ExampleCap

\* C19: (array and object fields take part in deduplication) every file
\* whose schema process_file wrote, a file with array-valued fields
\* included, is in the files list with a schema_id that is in the pool.
C19_ArrayFieldsListed ==
    \A fn \in DOMAIN out_files :
        \E i \in Listed :
            /\ files_list[i].filename = fn
            /\ \E n \in DOMAIN schema_pool : schema_pool[n].id = files_list[i].schema_id

====
